---- MODULE Spec2Model ----
(***************************************************************************)
(* Model of the fixed-versions service (vulnerabilities,Hadeel_Ghalieah.py) *)
(*                                                                         *)
(* One HTTP endpoint, GET /fixed-versions.  A request is validated by the  *)
(* framework, the handler opens one HTTP client, starts one sub-query per  *)
(* entry of the ecosystems list with asyncio.gather, merges the `fixed`    *)
(* values of the answers, and returns them sorted, or 404 when there are   *)
(* none.  Strings whose order matters (version strings, timestamps) are    *)
(* sequences of character codes, compared the way Python compares str.     *)
(***************************************************************************)
EXTENDS Integers, Sequences, FiniteSets, TLC

(***************************************************************************)
(* Bounds of the model.                                                    *)
(***************************************************************************)
\* longest ecosystems list a request carries
MaxEcosystems == 2
\* the wall clock reads 0..MaxClock ticks
MaxClock == 2
\* clock ticks per second (the sub-second part of a timestamp is t % this)
TicksPerSecond == 2

(***************************************************************************)
(* Values.                                                                 *)
(***************************************************************************)
\* Python's None for an optional string, and a present string
None == [some |-> FALSE, val |-> <<>>]
Some(v) == [some |-> TRUE, val |-> v]

\* version strings as character codes
V_empty == <<>>
V_1 == <<49>>
V_1_0 == <<49, 46, 48>>
V_10_0 == <<49, 48, 46, 48>>
V_2_1 == <<50, 46, 49>>
V_3_0 == <<51, 46, 48>>

Ecosystems == {"Ubuntu", "Debian"}
Revs == {0, 1}

\* the query parameter `name`: absent, empty, or a package name
NameParams == {[present |-> FALSE, value |-> ""],
               [present |-> TRUE, value |-> ""],
               [present |-> TRUE, value |-> "a"],
               [present |-> TRUE, value |-> "b"]}

\* the query parameter `ecosystems`: absent, or one value per occurrence
EcosystemLists == UNION {[1..n -> Ecosystems] : n \in 1..MaxEcosystems}
EcosystemParams == {[present |-> FALSE, value |-> <<>>]}
                     \cup {[present |-> TRUE, value |-> l] : l \in EcosystemLists}

Range(s) == {s[i] : i \in 1..Len(s)}

\* a < b for strings, as Python compares str (by code point, prefix first)
LexLess(a, b) ==
    \E k \in 1..(Len(a) + 1) :
        /\ k <= Len(b)
        /\ \A j \in 1..(k - 1) : a[j] = b[j]
        /\ (k = Len(a) + 1 \/ a[k] < b[k])
LexLeq(a, b) == a = b \/ LexLess(a, b)

(***************************************************************************)
(* The external vulnerability API: the answer to a query, by revision of   *)
(* the upstream data.  A record without a field is a JSON object without   *)
(* that key.                                                               *)
(***************************************************************************)
Ev(v) == [fixed |-> v]
Intro == [introduced |-> <<48>>]
Rg(events) == [type |-> "ECOSYSTEM", events |-> events]

Doc_A ==
    [vulns |-> <<
        [id |-> "V1", affected |-> << [ranges |-> << Rg(<<Intro, Ev(V_2_1)>>) >>] >>],
        [id |-> "V2", affected |-> << [ranges |-> << Rg(<<Intro, Ev(V_1_0)>>) >>] >>] >>]
Doc_B ==
    [vulns |-> <<
        [id |-> "V3", affected |-> <<
            [ranges |-> << Rg(<<Ev(V_1_0)>>), Rg(<<Intro, Ev(V_3_0)>>) >>],
            [ranges |-> << Rg(<<Ev(V_1_0)>>) >>] >>] >>]
Doc_Paged ==
    [vulns |-> <<
        [id |-> "V4", affected |-> <<
            [ranges |-> << Rg(<<Intro, Ev(V_empty), Ev(V_2_1), Ev(V_10_0)>>),
                           [type |-> "GIT"] >>],
            [package |-> "p"] >>],
        [id |-> "V5"] >>,
     next_page_token |-> "t1"]
Doc_NoVulns == [next_page_token |-> "t2"]
Doc_NoFixed ==
    [vulns |-> << [id |-> "V6", affected |-> <<
        [ranges |-> << Rg(<<Intro, Ev(V_empty)>>), Rg(<<>>) >>] >>] >>]
Doc_Prefix ==
    [vulns |-> << [id |-> "V7", affected |-> <<
        [ranges |-> << Rg(<<Ev(V_1_0), Ev(V_1), Intro>>) >>] >>] >>]
Doc_Empty == [vulns |-> <<>>]

Upstream(r, package) ==
    CASE package.name = "a" /\ package.ecosystem = "Ubuntu" ->
            (IF r = 0 THEN Doc_A ELSE Doc_Paged)
      [] package.name = "a" /\ package.ecosystem = "Debian" ->
            (IF r = 0 THEN Doc_B ELSE Doc_NoVulns)
      [] package.name = "b" /\ package.ecosystem = "Ubuntu" ->
            (IF r = 0 THEN Doc_NoFixed ELSE Doc_Prefix)
      [] OTHER -> Doc_Empty

(***************************************************************************)
(* Pure functions of the program.                                          *)
(***************************************************************************)
\* dict.get(key, []) on a JSON object
Get(obj, key) == IF key \in DOMAIN obj THEN obj[key] ELSE <<>>

\* event.get('fixed'): the value, or None when the key is absent
GetFixed(event) == IF "fixed" \in DOMAIN event THEN Some(event.fixed) ELSE None

\* variant of Truthy: `if fixed_version is not None:`, which keeps ""
NotNoneMutant(v) == v.some
\* `if fixed_version:` holds for a present, non-empty string
Truthy(v) == v.some /\ Len(v.val) > 0

\* the inner loop of extract_fixed_versions: the values one range yields
EventsFixed(events) ==
    LET F[i \in 0..Len(events)] ==
            IF i = 0 THEN <<>>
            ELSE F[i - 1] \o (IF Truthy(GetFixed(events[i]))
                              THEN <<GetFixed(events[i]).val>> ELSE <<>>)
    IN  F[Len(events)]
RangesFixed(ranges) ==
    LET F[i \in 0..Len(ranges)] ==
            IF i = 0 THEN <<>>
            ELSE F[i - 1] \o EventsFixed(Get(ranges[i], "events"))
    IN  F[Len(ranges)]
AffectedFixed(affected) ==
    LET F[i \in 0..Len(affected)] ==
            IF i = 0 THEN <<>>
            ELSE F[i - 1] \o RangesFixed(Get(affected[i], "ranges"))
    IN  F[Len(affected)]
\* extract_fixed_versions(data): everything the generator yields, in order
extract_fixed_versions(data) ==
    LET vulns == Get(data, "vulns")
        F[i \in 0..Len(vulns)] ==
            IF i = 0 THEN <<>>
            ELSE F[i - 1] \o AffectedFixed(Get(vulns[i], "affected"))
    IN  F[Len(vulns)]

\* variant of ListOfSet: list(xs), which keeps every occurrence
KeepDuplicatesMutant(xs) == {xs}
\* list(set(xs)): the distinct elements, in whatever order the set iterates
ListOfSet(xs) ==
    LET S == Range(xs)
        n == Cardinality(S)
    IN  {l \in [1..n -> S] : Range(l) = S}

\* sorted(xs, reverse=False)
Insert(s, x) ==
    LET k == Cardinality({j \in 1..Len(s) : LexLeq(s[j], x)})
    IN  SubSeq(s, 1, k) \o <<x>> \o SubSeq(s, k + 1, Len(s))
\* variant of Sorted: the list as fetch_fixed_versions returned it
UnsortedMutant(xs) == xs
Sorted(xs) ==
    LET F[i \in 0..Len(xs)] ==
            IF i = 0 THEN <<>> ELSE Insert(F[i - 1], xs[i])
    IN  F[Len(xs)]

\* variant of IsEmpty: the 404 branch left out
NeverEmptyMutant(xs) == FALSE
\* `if not fixed_versions:` on a list
IsEmpty(xs) == Len(xs) = 0

\* datetime.now().isoformat(): seconds, and the sub-second part unless zero
isoformat(t) ==
    IF t % TicksPerSecond = 0
    THEN <<t \div TicksPerSecond>>
    ELSE <<t \div TicksPerSecond, t % TicksPerSecond>>

\* OSVQuery(package={"name": ..., "ecosystem": ...}).dict()
OSVQuery(package_name, ecosystem) ==
    [commit |-> None, version |-> None, pageToken |-> None,
     package |-> [name |-> package_name, ecosystem |-> ecosystem]]

\* Query(..., min_length=1) on `name`
MinLength == 1
\* variant of NameValid: Query(...) without min_length
NoMinLengthMutant(name) == name.present
NameValid(name) == name.present /\ Len(name.value) >= MinLength

\* variant of DefaultEcosystems: another default list
OtherDefaultMutant == <<"Debian">>
\* Query(["Ubuntu"]) on `ecosystems`
DefaultEcosystems == <<"Ubuntu">>
EcosystemsOf(param) == IF param.present THEN param.value ELSE DefaultEcosystems

(***************************************************************************)
(* State.                                                                  *)
(***************************************************************************)
VARIABLES
    now,        \* the wall clock datetime.now() reads, in ticks
    rev,        \* the revision of the upstream data
    pc,         \* "idle", "received", "waiting" (suspended in gather), "done"
    request,    \* the query parameters of the request being handled
    seen,       \* the upstream revision the request's queries were answered from
    client,     \* the request's httpx.AsyncClient: "none", "open", "closed"
    tasks,      \* the tasks gather runs, one per entry of the ecosystems list
    calls,      \* the payloads posted to the external API by this request
    arrival,    \* the task indexes in the order the tasks finished
    response,   \* what the request was answered with (status 0: not yet)
    prev        \* the previous request and its answer, kept while the caller
                \* asks the same question again (history, read by no action)

vars == <<now, rev, pc, request, seen, client, tasks, calls, arrival, response, prev>>

NoRequest == [name |-> [present |-> FALSE, value |-> ""],
              ecosystems |-> [present |-> FALSE, value |-> <<>>]]
NoResponse == [status |-> 0, versions |-> <<>>, timestamp |-> <<>>]
ErrorResponse(code) == [status |-> code, versions |-> <<>>, timestamp |-> <<>>]
\* FixedVersionsResponse(name=..., versions=..., timestamp=...)
FixedVersionsResponse(versions, timestamp) ==
    [status |-> 200, versions |-> versions, timestamp |-> timestamp]
NoPrev == [request |-> NoRequest, rev |-> 0, inOrder |-> TRUE, response |-> NoResponse]

\* the tasks finished in the order they were created
InOrder(arr) == \A i \in 1..Len(arr) : arr[i] = i

\* two requests that ask the same question: the same name and the same
\* ecosystems, given alike or once left out and once given as ["Ubuntu"]
SameQuestion(r1, r2) ==
    /\ r1.name = r2.name
    /\ \/ r1.ecosystems = r2.ecosystems
       \/ {r1.ecosystems, r2.ecosystems} =
             {[present |-> FALSE, value |-> <<>>], [present |-> TRUE, value |-> <<"Ubuntu">>]}

\* the body the API sends with a non-2xx status
Doc_Error == [code |-> 13, message |-> "internal"]

Running(t) == t.st \in {"ready", "inflight"}
Drained == \A i \in 1..Len(tasks) : ~Running(tasks[i])

Init ==
    /\ now = 0
    /\ rev \in Revs
    /\ pc = "idle"
    /\ request = NoRequest
    /\ seen = 0
    /\ client = "none"
    /\ tasks = <<>>
    /\ calls = <<>>
    /\ arrival = <<>>
    /\ response = NoResponse
    /\ prev = NoPrev

(***************************************************************************)
(* The environment: the clock, the upstream data, the caller.              *)
(***************************************************************************)
\* time passes
Tick ==
    /\ now < MaxClock
    /\ now' = now + 1
    /\ UNCHANGED <<rev, pc, request, seen, client, tasks, calls, arrival, response, prev>>

\* the local wall clock is set back (end of daylight saving time, clock adjustment)
ClockStepBack ==
    /\ \E t \in 0..(now - 1) : now' = t
    /\ UNCHANGED <<rev, pc, request, seen, client, tasks, calls, arrival, response, prev>>

\* the upstream data changes, between two requests
UpstreamUpdate ==
    /\ pc \in {"idle", "done"}
    /\ Drained
    /\ \E r \in Revs \ {rev} : rev' = r
    /\ UNCHANGED <<now, pc, request, seen, client, tasks, calls, arrival, response, prev>>

\* GET /fixed-versions arrives.  The model follows one request at a time: the
\* next one arrives once the previous one was answered and the tasks it left
\* running have ended (requests share no state, each has its own client).
Arrive(name, ecosystems) ==
    /\ pc \in {"idle", "done"}
    /\ Drained
    /\ request' = [name |-> name, ecosystems |-> ecosystems]
    /\ prev' = IF /\ response.status \in {200, 404}
                  /\ SameQuestion(request, [name |-> name, ecosystems |-> ecosystems])
               THEN [request |-> request, rev |-> seen, inOrder |-> InOrder(arrival),
                     response |-> response]
               ELSE NoPrev
    /\ pc' = "received"
    /\ seen' = rev
    /\ client' = "none"
    /\ tasks' = <<>>
    /\ calls' = <<>>
    /\ arrival' = <<>>
    /\ response' = NoResponse
    /\ UNCHANGED <<now, rev>>

(***************************************************************************)
(* The request.                                                            *)
(***************************************************************************)
\* the framework rejects the request: `name` is missing or too short
Reject ==
    /\ pc = "received"
    /\ ~NameValid(request.name)
    /\ response' = ErrorResponse(422)
    /\ pc' = "done"
    /\ UNCHANGED <<now, rev, request, seen, client, tasks, calls, arrival, prev>>

\* get_fixed_versions runs up to `await asyncio.gather(*tasks)`: the client is
\* opened and one task per entry of the ecosystems list is scheduled
Handle ==
    /\ pc = "received"
    /\ NameValid(request.name)
    /\ client' = "open"
    /\ tasks' = [i \in 1..Len(EcosystemsOf(request.ecosystems)) |->
                    [ecosystem |-> EcosystemsOf(request.ecosystems)[i],
                     st |-> "ready", http |-> "", data |-> <<>>]]
    /\ pc' = "waiting"
    /\ UNCHANGED <<now, rev, request, seen, calls, arrival, response, prev>>

\* a task's first step: it builds its payload and posts it.  The event loop runs
\* the scheduled tasks in the order gather created them.
Send(i) ==
    /\ i \in 1..Len(tasks)
    /\ tasks[i].st = "ready"
    /\ \A j \in 1..(i - 1) : tasks[j].st # "ready"
    /\ calls' = Append(calls, OSVQuery(request.name.value, tasks[i].ecosystem))
    /\ tasks' = [tasks EXCEPT ![i].st = "inflight"]
    /\ UNCHANGED <<now, rev, pc, request, seen, client, arrival, response, prev>>

\* variant of RaisesForStatus: raise_for_status() left out
IgnoreStatusMutant(http) == FALSE
\* response.raise_for_status() raises on a status that is not a success
RaisesForStatus(http) == http # "2xx"

\* variant of Failed: the task posts its query again
RetryMutant(t) == [t EXCEPT !.st = "ready"]
\* a task whose query raised: the exception ends the task
Failed(t) == [t EXCEPT !.st = "failed"]

\* a task whose query returned: response.json() is what the task holds
Returned(t, http, body) == [t EXCEPT !.st = "ok", !.http = http, !.data = <<body>>]

\* No answer can come before every task has posted its query: the loop runs
\* all first steps before it polls the sockets.
CanAnswer(i) ==
    /\ i \in 1..Len(tasks)
    /\ tasks[i].st = "inflight"
    /\ \A j \in 1..Len(tasks) : tasks[j].st # "ready"

\* the API answers a query with a success status
Answer(i) ==
    /\ CanAnswer(i)
    /\ tasks' = [tasks EXCEPT ![i] =
                    IF RaisesForStatus("2xx") THEN Failed(@)
                    ELSE Returned(@, "2xx", Upstream(rev, calls[i].package))]
    /\ arrival' = Append(arrival, i)
    /\ UNCHANGED <<now, rev, pc, request, seen, client, calls, response, prev>>

\* the API answers a query with a status that is not a success
AnswerError(i) ==
    /\ CanAnswer(i)
    /\ tasks' = [tasks EXCEPT ![i] =
                    IF RaisesForStatus("5xx") THEN Failed(@)
                    ELSE Returned(@, "5xx", Doc_Error)]
    /\ arrival' = Append(arrival, i)
    /\ UNCHANGED <<now, rev, pc, request, seen, client, calls, response, prev>>

\* client.post raises a transport error
TransportError(i) ==
    /\ CanAnswer(i)
    /\ tasks' = [tasks EXCEPT ![i] = Failed(@)]
    /\ arrival' = Append(arrival, i)
    /\ UNCHANGED <<now, rev, pc, request, seen, client, calls, response, prev>>

\* gather raises to the handler as soon as one task has raised
GatherRaises(ts) == \E i \in 1..Len(ts) : ts[i].st = "failed"
\* gather returns to the handler when every task has returned
GatherReturns(ts) == \A i \in 1..Len(ts) : ts[i].st = "ok"

\* The exception of gather leaves `async with` (the client is closed) and the
\* handler: the request is answered with an unhandled server error.
HandlerFails ==
    /\ pc = "waiting"
    /\ GatherRaises(tasks)
    /\ client' = "closed"
    /\ response' = ErrorResponse(500)
    /\ pc' = "done"
    /\ UNCHANGED <<now, rev, request, seen, tasks, calls, arrival, prev>>

\* the versions of all results, in the order of the tasks
Collected(ts) ==
    LET F[i \in 0..Len(ts)] ==
            IF i = 0 THEN <<>>
            ELSE F[i - 1] \o extract_fixed_versions(ts[i].data[1])
    IN  F[Len(ts)]
\* what fetch_fixed_versions may return
fetch_fixed_versions(ts) == ListOfSet(Collected(ts))

\* the handler resumes with the results and finds none: 404
HandlerNotFound ==
    /\ pc = "waiting"
    /\ GatherReturns(tasks)
    /\ \E fixed_versions \in fetch_fixed_versions(tasks) :
        /\ IsEmpty(fixed_versions)
        /\ response' = ErrorResponse(404)
    /\ client' = "closed"
    /\ pc' = "done"
    /\ UNCHANGED <<now, rev, request, seen, tasks, calls, arrival, prev>>

\* the handler resumes with the results, sorts them and answers 200
HandlerResponds ==
    /\ pc = "waiting"
    /\ GatherReturns(tasks)
    /\ \E fixed_versions \in fetch_fixed_versions(tasks) :
        /\ ~IsEmpty(fixed_versions)
        /\ response' = FixedVersionsResponse(Sorted(fixed_versions), isoformat(now))
    /\ client' = "closed"
    /\ pc' = "done"
    /\ UNCHANGED <<now, rev, request, seen, tasks, calls, arrival, prev>>

Next ==
    \/ Tick
    \/ ClockStepBack
    \/ UpstreamUpdate
    \/ \E n \in NameParams, e \in EcosystemParams : Arrive(n, e)
    \/ Reject
    \/ Handle
    \/ \E i \in 1..MaxEcosystems : Send(i)
    \/ \E i \in 1..MaxEcosystems : Answer(i)
    \/ \E i \in 1..MaxEcosystems : AnswerError(i)
    \/ \E i \in 1..MaxEcosystems : TransportError(i)
    \/ HandlerFails
    \/ HandlerNotFound
    \/ HandlerResponds

Spec == Init /\ [][Next]_vars

(***************************************************************************)
(* What the properties speak of, stated apart from the program's code.     *)
(***************************************************************************)
\* the request was accepted and its handler has answered
Answered == pc = "done" /\ response.status # 422
\* the ecosystems the request asks for
Requested == IF request.ecosystems.present THEN request.ecosystems.value ELSE <<"Ubuntu">>
\* the answers the request's queries received
Answers == {tasks[i].data[1] : i \in {j \in 1..Len(tasks) : tasks[j].data # <<>>}}
\* every event of every range of every affected entry of every vuln of a document
EventsOf(doc) ==
    LET Field(obj, key) == IF key \in DOMAIN obj THEN Range(obj[key]) ELSE {}
    IN  UNION {Field(r, "events") :
            r \in UNION {Field(a, "ranges") :
                a \in UNION {Field(v, "affected") : v \in Field(doc, "vulns")}}}
\* the non-empty `fixed` values of a document
FixedOf(doc) == {e.fixed : e \in {ev \in EventsOf(doc) : "fixed" \in DOMAIN ev /\ ev.fixed # <<>>}}
\* the merged fixed-version set of the request
Merged == UNION {FixedOf(doc) : doc \in Answers}
\* a query of the request failed: a transport error or a status that is no success
QueryFailed(t) == t.st = "failed" \/ t.http = "5xx"
SomeQueryFailed == \E i \in 1..Len(tasks) : QueryFailed(tasks[i])
AllQueriesSucceeded == Len(tasks) > 0 /\ \A i \in 1..Len(tasks) : tasks[i].st = "ok" /\ tasks[i].http = "2xx"

(***************************************************************************)
(* C1.  The versions of every 200 response are sorted ascending in string  *)
(* order and hold no value twice: each entry is strictly below the next.   *)
(***************************************************************************)
C1_SortedNoDuplicates ==
    response.status = 200 =>
        \A i \in 1..(Len(response.versions) - 1) :
            LexLess(response.versions[i], response.versions[i + 1])
\* a 200 response of three versions merged from answers that repeat a version
C1_Witness ==
    /\ response.status = 200
    /\ Len(response.versions) = 3
    /\ Len(Collected(tasks)) > 3

(***************************************************************************)
(* C2.  When all queries of a request succeeded, the answer is 404 exactly *)
(* when the merged fixed-version set is empty; no 200 response has an      *)
(* empty versions list and no 404 is given for a non-empty merged set.     *)
(***************************************************************************)
C2_NotFoundIffEmpty ==
    /\ (Answered /\ AllQueriesSucceeded) =>
            /\ response.status \in {200, 404}
            /\ (response.status = 404) <=> (Merged = {})
    /\ response.status = 200 => response.versions # <<>>
    /\ response.status = 404 => Merged = {}
\* a 404 for answers that do hold events, none of them with a fixed version
C2_Witness ==
    /\ response.status = 404
    /\ \E doc \in Answers : EventsOf(doc) # {}

(***************************************************************************)
(* C3.  A request one of whose queries failed is answered with the         *)
(* unhandled server error, never with 200 or 404, whatever the other       *)
(* queries returned.                                                       *)
(***************************************************************************)
C3_AnyFailureFailsRequest ==
    (Answered /\ SomeQueryFailed) => response.status = 500
\* a failed request one of whose other queries had returned fixed versions
C3_Witness ==
    /\ response.status = 500
    /\ \E i \in 1..Len(tasks) : tasks[i].st = "failed"
    /\ \E doc \in Answers : FixedOf(doc) # {}

(***************************************************************************)
(* C4.  The versions of a 200 response are, as a set, the union of the     *)
(* non-empty `fixed` values of all answers; no entry is the empty string.  *)
(* Package "a" in Ubuntu {2.1, 1.0} and Debian {1.0, 3.0} gives            *)
(* [1.0, 2.1, 3.0].                                                        *)
(***************************************************************************)
C4_VersionsAreUnion ==
    /\ response.status = 200 =>
            /\ AllQueriesSucceeded
            /\ Range(response.versions) = Merged
            /\ \A i \in 1..Len(response.versions) : response.versions[i] # <<>>
    /\ (Answered /\ AllQueriesSucceeded /\ Answers = {Doc_A, Doc_B}) =>
            response = [status |-> 200, versions |-> <<V_1_0, V_2_1, V_3_0>>,
                        timestamp |-> response.timestamp]
\* a 200 response built from an answer with events without `fixed` and with an
\* empty `fixed`
C4_Witness ==
    /\ response.status = 200
    /\ Doc_Paged \in Answers
    /\ Len(tasks) = 2

(***************************************************************************)
(* C5.  A request without `name`, or with the empty name, never posts a    *)
(* query: it is answered 422 and no task is started for it.                *)
(***************************************************************************)
C5_InvalidNameNoCall ==
    (~request.name.present \/ request.name.value = "") =>
        /\ calls = <<>>
        /\ tasks = <<>>
        /\ client = "none"
        /\ pc = "done" => response.status = 422
\* the request with the empty name, rejected
C5_Witness ==
    /\ pc = "done"
    /\ request.name = [present |-> TRUE, value |-> ""]
    /\ response.status = 422

(***************************************************************************)
(* C6.  A request without `ecosystems` runs exactly one query, for         *)
(* "Ubuntu", and is answered like the request that names ["Ubuntu"]: asked *)
(* one after the other of the same upstream data, with all queries         *)
(* succeeding, the two get the same status and the same versions.          *)
(***************************************************************************)
C6_DefaultIsUbuntu ==
    /\ (~request.ecosystems.present /\ pc \in {"waiting", "done"} /\ response.status # 422) =>
            /\ Len(tasks) = 1
            /\ tasks[1].ecosystem = "Ubuntu"
            /\ \A i \in 1..Len(calls) : i = 1 /\ calls[i].package.ecosystem = "Ubuntu"
            /\ pc = "done" => Len(calls) = 1
    /\ ( /\ prev.response.status # 0
         /\ response.status \in {200, 404}
         /\ prev.rev = seen
         /\ prev.request.ecosystems.present # request.ecosystems.present ) =>
            /\ response.status = prev.response.status
            /\ response.versions = prev.response.versions
\* the request without `ecosystems` answered 200 after the one naming ["Ubuntu"]
C6_Witness ==
    /\ response.status = 200
    /\ ~request.ecosystems.present
    /\ prev.response.status = 200
    /\ prev.request.ecosystems.present
    /\ prev.rev = seen

(***************************************************************************)
(* C7.  Of two requests for the same name and ecosystems, handled one      *)
(* after the other on unchanged upstream data and both answered 200, the   *)
(* second has the versions of the first and a timestamp that is not        *)
(* earlier.                                                                *)
(***************************************************************************)
C7_SameVersionsLaterTimestamp ==
    ( /\ prev.response.status = 200
      /\ response.status = 200
      /\ prev.request = request
      /\ prev.rev = seen ) =>
        /\ response.versions = prev.response.versions
        /\ ~LexLess(response.timestamp, prev.response.timestamp)

(***************************************************************************)
(* C8.  When the handler stops waiting in gather and the request gets its  *)
(* outcome, none of the request's queries is still running.                *)
(***************************************************************************)
C8_NoQueryInFlightAtOutcome ==
    [][(pc = "waiting" /\ pc' = "done") =>
            \A i \in 1..Len(tasks') : ~Running(tasks'[i])]_vars

(***************************************************************************)
(* C9.  The order in which the queries finish does not matter: two         *)
(* requests asking the same question of the same upstream data, all of     *)
(* whose queries succeeded, get the same status and the same versions,     *)
(* whichever order their queries finished in.                              *)
(***************************************************************************)
C9_CompletionOrderIrrelevant ==
    ( /\ prev.response.status # 0
      /\ response.status \in {200, 404}
      /\ prev.rev = seen ) =>
        /\ response.status = prev.response.status
        /\ response.versions = prev.response.versions
\* two such requests answered 200 whose queries finished in different orders
C9_Witness ==
    /\ prev.response.status = 200
    /\ response.status = 200
    /\ prev.rev = seen
    /\ Len(response.versions) >= 3
    /\ prev.inOrder # InOrder(arrival)

(***************************************************************************)
(* C10.  A request posts at most one query per ecosystem.  (As stated for  *)
(* ecosystems; the list may name one ecosystem twice.)                     *)
(***************************************************************************)
C10_OneCallPerEcosystemName ==
    \A e \in Ecosystems :
        Cardinality({i \in 1..Len(calls) : calls[i].package.ecosystem = e}) <= 1

(***************************************************************************)
(* C10, amended.  A request posts exactly one query per entry of its       *)
(* ecosystems list, in the order of the list, and never another one: none  *)
(* after a failure, none for a page token.                                 *)
(***************************************************************************)
C10_OneCallPerEntry ==
    /\ Len(calls) <= Len(tasks)
    /\ Len(tasks) > 0 => Len(tasks) = Len(Requested)
    /\ \A i \in 1..Len(calls) :
            calls[i] = [commit |-> None, version |-> None, pageToken |-> None,
                        package |-> [name |-> request.name.value,
                                     ecosystem |-> Requested[i]]]
    /\ Answered => Len(calls) = Len(Requested)
\* an answered request with a failed query and an answer carrying a page token
C10_Witness ==
    /\ Answered
    /\ \E i \in 1..Len(tasks) : tasks[i].st = "failed"
    /\ \E doc \in Answers : "next_page_token" \in DOMAIN doc

====
